---- MODULE Spec2Model ----
(***************************************************************************)
(* A model of jedi's inference core: the memoizing wrappers of            *)
(* jedi/inference/cache.py run as a call-stack machine over the           *)
(* per-session memoize_cache, and the ValueSet algebra of                 *)
(* jedi/inference/base_value.py.                                           *)
(***************************************************************************)
EXTENDS Integers, Sequences, FiniteSets, TLC

\* ------------------------------------------------------------------ bounds
\* wrapper calls (top-level and nested) in one behaviour
MaxCalls == 2
\* frames on the call stack
MaxDepth == 3
\* elements one generator produces
MaxYield == 2

\* ------------------------------------------------------------ the universe
\* inference sessions (InferenceState objects), each owning a memoize_cache
Sessions == {"S1", "S2"}
\* classes whose metaclass is CachedMetaClass
Classes == {"K1", "K2"}
\* a Python value that cannot be hashed (a list)
UnhashableValue == "[]"

\* the wrapped functions, by the decorator applied to them
PlainFuncs == {"plain"}
GuardedFuncs == {"guarded", "__call__"}
MemoFuncs == {"memo_first", "memo_second", "memo_free"}
GeneratorFuncs == {"generator"}
\* two recursion-guarded functions that resolve through each other
AliasFuncs == {"alias_a", "alias_b"}
Funcs == PlainFuncs \cup GuardedFuncs \cup MemoFuncs \cup GeneratorFuncs
\* the programs analysed: each a set of decorated functions that call each other
Programs ==
    { {"guarded", "generator"}, {"plain", "memo_first"}, {"__call__"},
      {"memo_second", "memo_free"} }

\* the argument lists calls are made with: positional tuple and keyword pairs
\* in the order written at the call site
ArgLists ==
    { [args |-> <<"x">>, kw |-> << <<"p", "u">>, <<"q", "v">> >>],
      [args |-> <<"x">>, kw |-> << <<"q", "v">>, <<"p", "u">> >>],
      [args |-> <<"y">>, kw |-> << >>],
      [args |-> <<UnhashableValue>>, kw |-> << >>],
      [args |-> <<"x">>, kw |-> << <<"p", UnhashableValue>> >>] }

\* ------------------------------------------------------------------ values
Val(tag, id, by, sess, items) ==
    [tag |-> tag, id |-> id, by |-> by, sess |-> sess, items |-> items]
None == Val("none", 0, "", "", << >>)
_RECURSION_SENTINEL == Val("sentinel", 0, "", "", << >>)
\* a fresh object a wrapped function returns (for __call__: the instance)
Obj(id, by, sess) == Val("obj", id, by, sess, << >>)
\* a generator object that has not been drained
GeneratorObj(id, by, sess) == Val("generator", id, by, sess, << >>)
\* a list built in a call of function by under session sess, by the identities
\* of its elements in order
ListOf(by, sess, items) == Val("list", 0, by, sess, items)
TypeError == Val("exc", 0, "TypeError", "", << >>)
OtherError == Val("exc", 0, "Exception", "", << >>)
Exceptions == {TypeError, OtherError}

\* ------------------------------------------------------------- cache keys
Hashable(v) == v # UnhashableValue

\* (variant) every value hashes
SeqHashable_always(t) == TRUE

SeqHashable(t) == \A i \in DOMAIN t : Hashable(t[i])

\* hash(frozenset(kwargs.items())) hashes every (name, value) pair
KwHashable(kw) == \A i \in DOMAIN kw : Hashable(kw[i][2])

\* frozenset(kwargs.items()): the pairs without their order
frozenset(kw) == {kw[i] : i \in DOMAIN kw}

\* _memoize_default's flags, per decorated function
inference_state_is_first_arg(f) == f = "memo_first"
second_arg_is_inference_state(f) == f = "memo_second"

\* the *args tuple the wrapper receives: _memoize_default's wrapper takes every
\* argument in *args (the session among them), the others name the session (and
\* cls) as parameters of their own
WrapperArgs(f, cls, s, al) ==
    IF f \in MemoFuncs
    THEN IF inference_state_is_first_arg(f) THEN <<s>> \o al.args
         ELSE IF second_arg_is_inference_state(f) THEN <<cls, s>> \o al.args
         ELSE al.args
    ELSE al.args

\* (variant) the keyword pairs kept in call order
Key_ordered_kwargs(f, cls, s, al) ==
    [func |-> f, args |-> WrapperArgs(f, cls, s, al), kw |-> al.kw]

\* (variant) the arguments left out of the key
Key_function_only(f, cls, s, al) ==
    [func |-> f, args |-> << >>, kw |-> {}]

\* key = (func, args, frozenset(kwargs.items()))
Key(f, cls, s, al) ==
    [func |-> f, args |-> WrapperArgs(f, cls, s, al), kw |-> frozenset(al.kw)]

\* (variant) one cache for the whole process
CacheOf_shared(f, s) == "S1"

\* the cache a wrapper works on: a session's memoize_cache, or for
\* _memoize_default without a session a dict of the call's own ("local")
CacheOf(f, s) ==
    IF f \in MemoFuncs /\ ~inference_state_is_first_arg(f)
                       /\ ~second_arg_is_inference_state(f)
    THEN "local"
    ELSE s

\* ---------------------------------------------------------------- ValueSet
\* the bound on the length of an iterable handed to the constructor
MaxItems == 2

\* a Value object, and a ValueSet object with the members of its _set
MkValue(n) == [kind |-> "Value", name |-> n, elems |-> {}]
MkValueSet(S) == [kind |-> "ValueSet", name |-> "", elems |-> S]
ValueObjs == {MkValue("v1"), MkValue("v2")}
\* the attributes class Value defines
ValueAttrs ==
    {"py__getattribute__", "py__bool__", "py__getattribute__alternatives", "infer_type_vars"}

\* what evaluating an expression gives: a value, or an exception of one of the
\* types in exc (which one may depend on the iteration order of a set)
Ok(v) == [status |-> "ok", value |-> v, exc |-> {}]
Raise(E) == [status |-> "raise", value |-> MkValueSet({}), exc |-> E]

Range(q) == {q[i] : i \in DOMAIN q}

\* what a second iteration over the iterable yields: a list or a set is
\* iterated again, an iterator is exhausted by the first
SecondPass(it) == IF it.type = "iterator" THEN << >> ELSE it.items

\* ValueSet.__init__: self._set = frozenset(iterable), then
\* for value in iterable: assert not isinstance(value, ValueSet)
ValueSet_init(it) ==
    IF \E i \in DOMAIN SecondPass(it) : SecondPass(it)[i].kind = "ValueSet"
    THEN Raise({"AssertionError"})
    ELSE Ok(MkValueSet(Range(it.items)))

\* iterator_to_value_set(iterator) = ValueSet(iterator)
iterator_to_value_set(items) == ValueSet_init([type |-> "iterator", items |-> items])

NO_VALUES == MkValueSet({})

\* ValueSet.from_sets(sets) = cls(reduce(add, sets, frozenset())), where outs are
\* the outcomes of evaluating the elements of sets in turn: an element that
\* raises ends the reduction, and frozenset() + x is a TypeError for every x
from_sets(outs) ==
    IF outs = {} THEN ValueSet_init([type |-> "set", items |-> << >>])
    ELSE Raise(UNION {IF o.status = "raise" THEN o.exc ELSE {"TypeError"} : o \in outs})

\* getattr(value, name)(*args) for a member of a ValueSet: a Value has the
\* attributes of its class (each gives NO_VALUES here) and no others
RECURSIVE MemberCall(_, _, _)
MemberCall(m, name, args) ==
    IF m.kind = "Value"
    THEN IF name \in ValueAttrs THEN Ok(NO_VALUES) ELSE Raise({"AttributeError"})
    ELSE \* a ValueSet member answers through its own __getattr__
         from_sets({MemberCall(x, name, args) : x \in m.elems})

\* ValueSet.__getattr__(name)(*args): the mapper over the members
\*   self.from_sets(getattr(value, name)(*args) for value in self._set)
mapper(self, name, args) == from_sets({MemberCall(x, name, args) : x \in self.elems})

\* ValueSet defines no _from_frozen_set: the lookup falls to __getattr__ and
\* the call is the mapper's
\*   return self._from_frozen_set(self._set | other._set)
__or__(self, other) == mapper(self, "_from_frozen_set", self.elems \cup other.elems)
\*   return self._from_frozen_set(self._set & other._set)
__and__(self, other) == mapper(self, "_from_frozen_set", self.elems \cap other.elems)
__eq__(self, other) == self.elems = other.elems

\* x | y for operands that are themselves outcomes
OrOut(x, y) ==
    IF x.status = "raise" THEN x ELSE IF y.status = "raise" THEN y
    ELSE __or__(x.value, y.value)

\* ------------------------------------------------------------------- state
VARIABLES
    prog,           \* the decorated functions of the program under analysis
    memoize_cache,  \* session -> (key -> cached value): InferenceState.memoize_cache
    stack,          \* the Python call stack: one frame per wrapper call whose
                    \* wrapped function is running
    nextId,         \* identity of the next object created
    calls,          \* wrapper calls made so far
    done,           \* history: session -> (call -> value its last completed call
                    \* returned along the cached path)
    ret,            \* the wrapper call that completed last
    va, vb, vc,     \* three ValueSets, the operands of the algebra
    built,          \* the ValueSet the constructor returned last
    vres,           \* the ValueSet operation evaluated last
    heap,           \* the dict objects: reference -> (name -> value)
    lazy_values,    \* the lazy values created so far, in creation order
    merged,         \* the last call of get_merged_lazy_value and its result
    ann             \* the last call into the annotation engine and its result

cachevars == <<prog, memoize_cache, stack, nextId, calls, done, ret>>
vsvars == <<va, vb, vc, built, vres>>
lazyvars == <<heap, lazy_values, merged>>
noncache == <<vsvars, lazyvars, ann>>
nonvs == <<cachevars, lazyvars, ann>>
nonlazy == <<cachevars, vsvars, ann>>
nonann == <<cachevars, vsvars, lazyvars>>
vars ==
    <<prog, memoize_cache, stack, nextId, calls, done, ret, va, vb, vc, built, vres,
      heap, lazy_values, merged, ann>>

\* a call by what was asked for, independent of how the wrapper keys it
CallId(f, cls, al) ==
    [func |-> f, cls |-> cls, args |-> al.args, kw |-> {al.kw[i] : i \in DOMAIN al.kw}]

NoArgs == [args |-> << >>, kw |-> << >>]

\* a wrapper call: what it was called with and what it has done so far
NewCall(f, cls, s, al, st) ==
    [func |-> f, cls |-> cls, sess |-> s, id |-> CallId(f, cls, al),
     key |-> Key(f, cls, s, al),
     hashable |-> SeqHashable(WrapperArgs(f, cls, s, al)) /\ KwHashable(al.kw),
     mode |-> "enter", ninv |-> 0, drains |-> 0,
     reentrant |-> \E i \in DOMAIN st :
                      /\ st[i].sess = s
                      /\ st[i].hashable
                      /\ st[i].key = Key(f, cls, s, al),
     prior |-> IF CallId(f, cls, al) \in DOMAIN done[s]
               THEN done[s][CallId(f, cls, al)] ELSE None,
     raised |-> None,
     got |-> None, pend |-> None, values |-> << >>, produced |-> << >>]

NoCall ==
    [func |-> "", cls |-> "", sess |-> "", id |-> CallId("", "", NoArgs),
     key |-> Key("", "", "", NoArgs), hashable |-> TRUE,
     mode |-> "enter", ninv |-> 0, drains |-> 0, reentrant |-> FALSE, prior |-> None,
     raised |-> None,
     got |-> None, pend |-> None, values |-> << >>, produced |-> << >>]

NoRet == [c |-> NoCall, kind |-> "none", val |-> None]

NoRes ==
    [op |-> "", itype |-> "", nested |-> FALSE, parts |-> {},
     lhs |-> Ok(NO_VALUES), rhs |-> Ok(NO_VALUES)]

InitCache ==
    /\ memoize_cache = [s \in Sessions |-> << >>]
    /\ stack = << >>
    /\ nextId = 1
    /\ calls = 0
    /\ done = [s \in Sessions |-> << >>]
    /\ ret = NoRet

InitValueSets ==
    /\ va = NO_VALUES /\ vb = NO_VALUES /\ vc = NO_VALUES
    /\ built = NO_VALUES
    /\ vres = NoRes

\* the one context and its predefined_names dict, empty at first
ContextNames == 0

NoAnn == [op |-> ""]

NoMerged == [args |-> << >>, result |-> [cls |-> "", data |-> << >>, min |-> 1, max |-> 1]]

InitLazy ==
    /\ heap = (ContextNames :> << >>)
    /\ lazy_values = << >>
    /\ merged = NoMerged
    /\ ann = NoAnn

Init ==
    /\ prog \in Programs
    /\ InitCache
    /\ InitValueSets
    /\ InitLazy

\* ---------------------------------------------------------- cache access
\* cache = inference_state.memoize_cache, or {} for a call without a session
CacheGet(ref) == IF ref = "local" THEN << >> ELSE memoize_cache[ref]

\* cache[key] = v
CachePut(ref, key, v) ==
    IF ref = "local" THEN memoize_cache
    ELSE [memoize_cache EXCEPT ![ref] = (key :> v) @@ @]

\* (variant) no wrapper marks a key as in progress
WritesSentinel_never(f) == FALSE

\* the wrappers that write _RECURSION_SENTINEL under the key before computing
WritesSentinel(f) == f \in GuardedFuncs \cup AliasFuncs \cup GeneratorFuncs

\* what the object a function creates is an instance of
By(c) == IF c.func = "__call__" THEN c.cls ELSE c.func

\* (variant) the elements collected newest first
ListCollect_prepend(values, e) == <<e>> \o values

\* values = list(generator): the elements in the order they are produced
ListCollect(values, e) == Append(values, e)

\* ------------------------------------------------------- call completion
\* the caller's frame resumes with the callee's value, or with its exception
Deliver(frame, kind, val) ==
    IF kind = "return" THEN [frame EXCEPT !.got = val] ELSE [frame EXCEPT !.pend = val]

\* a wrapper call completes: the frames st below it remain
Complete(st, c, kind, val) ==
    /\ ret' = [c |-> c, kind |-> kind, val |-> val]
    /\ prog' = prog
    /\ stack' = IF st = << >> THEN st
                ELSE [st EXCEPT ![Len(st)] = Deliver(@, kind, val)]

\* the cached path returned val for call c
Record(c, val) ==
    done' = [done EXCEPT ![c.sess] = (c.id :> val) @@ @]

top == stack[Len(stack)]
below == SubSeq(stack, 1, Len(stack) - 1)

\* ---------------------------------------------------------- wrapper entry
\* wrapper(...) up to the point where the wrapped function's body runs:
\*   key = (func, args, frozenset(kwargs.items()))      raises on an unhashable
\*                                                       keyword value
\*   try: if key in cache: return cache[key]             raises TypeError on an
\*                                                       unhashable key
\*        [cache[key] = _RECURSION_SENTINEL]
\*        result = cache[key] = func(...)
\*   except TypeError: return func(...)
Enter(st, f, cls, s, al) ==
    LET c == NewCall(f, cls, s, al, st)
        ref == CacheOf(f, s)
        cache == CacheGet(ref)
    IN  /\ calls' = calls + 1
        /\ IF ~KwHashable(al.kw)
           THEN /\ Complete(st, c, "raise", TypeError)
                /\ UNCHANGED <<memoize_cache, nextId, done>>
           ELSE IF ~c.hashable
           THEN IF f \in GeneratorFuncs
                THEN \* return func(...): a generator nobody has drained
                     /\ Complete(st, [c EXCEPT !.mode = "fallback", !.ninv = 1],
                                 "return", GeneratorObj(nextId, By(c), s))
                     /\ nextId' = nextId + 1
                     /\ UNCHANGED <<memoize_cache, done>>
                ELSE /\ stack' = Append(st, [c EXCEPT !.mode = "fallback", !.ninv = 1])
                     /\ UNCHANGED <<prog, memoize_cache, nextId, done, ret>>
           ELSE IF c.key \in DOMAIN cache
           THEN /\ Complete(st, c, "return", cache[c.key])
                /\ IF c.reentrant THEN UNCHANGED done ELSE Record(c, cache[c.key])
                /\ UNCHANGED <<memoize_cache, nextId>>
           ELSE /\ memoize_cache' = IF WritesSentinel(f)
                                    THEN CachePut(ref, c.key, _RECURSION_SENTINEL)
                                    ELSE memoize_cache
                /\ stack' = Append(st, [c EXCEPT !.mode = "compute", !.ninv = 1,
                                                 !.drains = IF f \in GeneratorFuncs
                                                            THEN 1 ELSE 0])
                /\ UNCHANGED <<prog, nextId, done, ret>>

\* the wrapped function of the top frame returned v
FuncReturns(v) ==
    IF top.mode = "compute"
    THEN \* result = cache[key] = func(...); return result
         /\ memoize_cache' = CachePut(CacheOf(top.func, top.sess), top.key, v)
         /\ Record(top, v)
         /\ Complete(below, top, "return", v)
    ELSE \* return func(...)
         /\ Complete(below, top, "return", v)
         /\ UNCHANGED <<memoize_cache, done>>

\* the wrapped function of the top frame raised e
FuncRaises(e) ==
    IF top.mode = "compute" /\ e = TypeError
    THEN \* except TypeError: return func(...)
         IF top.func \in GeneratorFuncs
         THEN /\ Complete(below, [top EXCEPT !.mode = "fallback", !.ninv = @ + 1,
                                              !.raised = e],
                          "return", GeneratorObj(nextId, By(top), top.sess))
              /\ nextId' = nextId + 1
              /\ UNCHANGED <<memoize_cache, done>>
         ELSE /\ stack' = [stack EXCEPT ![Len(stack)] =
                              [@ EXCEPT !.mode = "fallback", !.ninv = @ + 1,
                                        !.raised = e, !.got = None, !.pend = None]]
              /\ UNCHANGED <<prog, memoize_cache, nextId, done, ret>>
    ELSE /\ Complete(below, [top EXCEPT !.raised = e], "raise", e)
         /\ UNCHANGED <<memoize_cache, nextId, done>>

Running == stack # << >> /\ top.pend = None

\* ------------------------------------------------------------- the actions
\* a caller outside the engine calls a wrapped function
TopCall(f, cls, s, al) ==
    /\ UNCHANGED noncache
    /\ stack = << >>
    /\ calls < MaxCalls
    /\ Enter(stack, f, cls, s, al)

\* the running function calls a wrapped function with its own session
BodyCall(f, cls, al) ==
    /\ UNCHANGED noncache
    /\ Running
    /\ top.func \notin AliasFuncs
    /\ Len(stack) < MaxDepth
    /\ calls < MaxCalls
    /\ Enter(stack, f, cls, top.sess, al)

\* the running function returns a new object
BodyReturnFresh ==
    /\ UNCHANGED noncache
    /\ Running
    /\ top.func \notin AliasFuncs \cup GeneratorFuncs
    /\ nextId' = nextId + 1
    /\ calls' = calls
    /\ FuncReturns(Obj(nextId, By(top), top.sess))

\* the running function returns what the call it made returned
BodyReturnGot ==
    /\ UNCHANGED noncache
    /\ Running
    /\ top.func \notin AliasFuncs \cup GeneratorFuncs \cup {"__call__"}
    /\ top.got # None
    /\ UNCHANGED <<nextId, calls>>
    /\ FuncReturns(top.got)

\* the running function raises
BodyRaise(e) ==
    /\ UNCHANGED noncache
    /\ Running
    /\ top.func \notin AliasFuncs
    /\ calls' = calls
    /\ IF top.mode = "compute" /\ e = TypeError /\ top.func \in GeneratorFuncs
       THEN TRUE ELSE nextId' = nextId
    /\ FuncRaises(e)

\* an exception of a call the function made passes through the function
Propagate ==
    /\ UNCHANGED noncache
    /\ stack # << >>
    /\ top.pend # None
    /\ calls' = calls
    /\ IF top.mode = "compute" /\ top.pend = TypeError /\ top.func \in GeneratorFuncs
       THEN TRUE ELSE nextId' = nextId
    /\ FuncRaises(top.pend)

\* list(generator) takes the next element the generator produces
BodyYield ==
    /\ UNCHANGED noncache
    /\ Running
    /\ top.func \in GeneratorFuncs
    /\ Len(top.produced) < MaxYield
    /\ stack' = [stack EXCEPT ![Len(stack)] =
                    [@ EXCEPT !.produced = Append(@, nextId),
                              !.values = ListCollect(top.values, nextId)]]
    /\ nextId' = nextId + 1
    /\ UNCHANGED <<prog, memoize_cache, calls, done, ret>>

\* the generator is exhausted: cache[key] = values; return values
GeneratorEnd ==
    /\ UNCHANGED noncache
    /\ Running
    /\ top.func \in GeneratorFuncs
    /\ UNCHANGED <<nextId, calls>>
    /\ FuncReturns(ListOf(top.func, top.sess, top.values))

ClsOf(f) == IF f = "__call__" THEN Classes ELSE {""}

Next ==
    \/ \E f \in prog, s \in Sessions, al \in ArgLists :
         \E cls \in ClsOf(f) : TopCall(f, cls, s, al)
    \/ \E f \in prog, al \in ArgLists :
         \E cls \in ClsOf(f) : BodyCall(f, cls, al)
    \/ BodyReturnFresh
    \/ BodyReturnGot
    \/ \E e \in Exceptions : BodyRaise(e)
    \/ Propagate
    \/ BodyYield
    \/ GeneratorEnd

Spec == Init /\ [][Next]_vars

\* ------------------------------------------------- mutually aliased bindings
\* a = b; b = a: each function resolves through the other
Peer(f) == IF f = "alias_a" THEN "alias_b" ELSE "alias_a"

InitAlias ==
    /\ prog = AliasFuncs
    /\ InitCache
    /\ InitValueSets
    /\ InitLazy

\* the running function asks its peer about the arguments it was given itself
AliasCall(al) ==
    /\ UNCHANGED noncache
    /\ Running
    /\ top.func \in AliasFuncs
    /\ top.got = None
    /\ Len(stack) < MaxDepth
    /\ CallId(top.func, top.cls, al) = top.id
    /\ Enter(stack, Peer(top.func), top.cls, top.sess, al)

\* and returns what the peer returned
AliasReturn ==
    /\ UNCHANGED noncache
    /\ Running
    /\ top.func \in AliasFuncs
    /\ top.got # None
    /\ UNCHANGED <<nextId, calls>>
    /\ FuncReturns(top.got)

NextAlias ==
    \/ \E f \in prog, s \in Sessions, al \in ArgLists : TopCall(f, "", s, al)
    \/ \E al \in ArgLists : AliasCall(al)
    \/ AliasReturn

\* the interpreter keeps running the call on the stack
SpecAlias == InitAlias /\ [][NextAlias]_vars /\ WF_vars(NextAlias)

\* ------------------------------------------------------ the ValueSet algebra
\* the ValueSets built from lists of Values
FlatSets == {MkValueSet(S) : S \in SUBSET ValueObjs}

InitAlgebra ==
    /\ prog = {}
    /\ InitCache
    /\ va \in FlatSets /\ vb \in FlatSets /\ vc \in FlatSets
    /\ built = NO_VALUES
    /\ vres = NoRes
    /\ InitLazy

\* the iterables a caller hands to the constructor: of Values and ValueSets
Iterables ==
    [type : {"list", "set", "iterator"},
     items : UNION {[1..n -> ValueObjs \cup {va, vb, vc}] : n \in 0..MaxItems}]

\* ValueSet(iterable), for a one-shot iterator through iterator_to_value_set
Constructed(it) ==
    IF it.type = "iterator" THEN iterator_to_value_set(it.items) ELSE ValueSet_init(it)

Construct(it) ==
    /\ vres' = [op |-> "init", itype |-> it.type,
                nested |-> \E i \in DOMAIN it.items : it.items[i].kind = "ValueSet",
                parts |-> {},
                lhs |-> Constructed(it), rhs |-> Ok(NO_VALUES)]
    /\ built' = IF Constructed(it).status = "ok" THEN Constructed(it).value ELSE built
    /\ UNCHANGED <<va, vb, vc>>
    /\ UNCHANGED nonvs

\* both sides of a law of the algebra are evaluated
Evaluate(op, lhs, rhs) ==
    /\ vres' = [op |-> op, itype |-> "", nested |-> FALSE, parts |-> {},
                lhs |-> lhs, rhs |-> rhs]
    /\ UNCHANGED <<va, vb, vc, built>>
    /\ UNCHANGED nonvs

\* A | (B | C)  and  (A | B) | C
OrAssociative ==
    Evaluate("assoc", OrOut(Ok(va), OrOut(Ok(vb), Ok(vc))), OrOut(OrOut(Ok(va), Ok(vb)), Ok(vc)))

\* A | B  and  B | A
OrCommutative == Evaluate("comm", __or__(va, vb), __or__(vb, va))

\* A | empty  and  A
OrIdentity == Evaluate("ident", __or__(va, NO_VALUES), Ok(va))

\* A & A  and  A
AndIdempotent == Evaluate("idem", __and__(va, va), Ok(va))

\* the capability names a caller asks a ValueSet for: one every Value has
\* (it returns a ValueSet) and one no Value has
BroadcastNames == {"py__getattribute__alternatives", "py__iter__"}

\* S.name(): the attribute is not defined on ValueSet, so the call is the
\* mapper's; parts are the results of the members
Broadcast(name) ==
    /\ vres' = [op |-> "broadcast", itype |-> name, nested |-> FALSE,
                parts |-> {MemberCall(x, name, << >>) : x \in va.elems},
                lhs |-> mapper(va, name, << >>), rhs |-> Ok(NO_VALUES)]
    /\ UNCHANGED <<va, vb, vc, built>>
    /\ UNCHANGED nonvs

\* ValueSet.from_sets(sets) for a sequence of up to two ValueSets
FromSets(sets) ==
    /\ vres' = [op |-> "from_sets", itype |-> "", nested |-> FALSE,
                parts |-> {Ok(s) : s \in sets},
                lhs |-> from_sets({Ok(s) : s \in sets}), rhs |-> Ok(NO_VALUES)]
    /\ UNCHANGED <<va, vb, vc, built>>
    /\ UNCHANGED nonvs

NextAlgebra ==
    \/ \E it \in Iterables : Construct(it)
    \/ OrAssociative
    \/ OrCommutative
    \/ OrIdentity
    \/ AndIdempotent
    \/ \E name \in BroadcastNames : Broadcast(name)
    \/ \E sets \in SUBSET {va, vb} : FromSets(sets)

SpecAlgebra == InitAlgebra /\ [][NextAlgebra]_vars

\* ============================================================ lazy values
\* lazy_value.py: the lazy values and the name table a LazyTreeValue captures
MaxLazy == 2

\* names and values of the entries of context.predefined_names
Names == {"a"}
NameValues == {"v1", "v2"}

\* the (min, max) a caller passes to a constructor; (1, 1) is the default
ArityBounds == {<<1, 1>>, <<0, 1>>, <<1, 2>>}

\* d[k] = v  and  del d[k]  on a dict
DictSet(d, k, v) == [x \in DOMAIN d \cup {k} |-> IF x = k THEN v ELSE d[x]]
DictDel(d, k) == [x \in DOMAIN d \ {k} |-> d[x]]

\* AbstractLazyValue.__init__(self, data, min=1, max=1)
AbstractLazyValue(cls, data, min, max) ==
    [cls |-> cls, data |-> data, min |-> min, max |-> max,
     context |-> -1, _predefined_names |-> -1, created |-> << >>]

\* LazyKnownValue(data, min, max): no __init__ of its own
LazyKnownValue(data, min, max) == AbstractLazyValue("LazyKnownValue", data, min, max)

\* LazyUnknownValue(min, max): super().__init__(None, min, max)
LazyUnknownValue(min, max) == AbstractLazyValue("LazyUnknownValue", "None", min, max)

\* (variant) the table of the context itself is kept instead of a copy
dict_alias(names, fresh) == names

\* dict(context.predefined_names): a new dict object with the same entries;
\* the reference of the new object is the result
dict(names, fresh) == fresh

\* LazyTreeValue(context, node, min, max); created remembers the entries the
\* context's table had at this moment
LazyTreeValue(context, node, min, max, fresh) ==
    [AbstractLazyValue("LazyTreeValue", node, min, max) EXCEPT
        !.context = context,
        !._predefined_names = dict(context, fresh),
        !.created = heap[context]]

\* MergedLazyValues(lazy_values): the class has no __init__, so
\* AbstractLazyValue.__init__(lazy_values) runs with min=1, max=1
MergedLazyValues(lazy) ==
    [cls |-> "MergedLazyValues", data |-> lazy, min |-> 1, max |-> 1]

\* a lazy value as a caller sees it: class, data and bounds
Public(lz) == [cls |-> lz.cls, data |-> lz.data, min |-> lz.min, max |-> lz.max]

get_merged_lazy_value(lazy) ==
    IF Len(lazy) = 1 THEN lazy[1] ELSE MergedLazyValues(lazy)

\* a new lazy value of one of the classes is created from the context
NewLazyTreeValue(b) ==
    /\ Len(lazy_values) < MaxLazy
    /\ LET fresh == Len(lazy_values) + 1 IN
        /\ heap' = heap @@ (fresh :> heap[ContextNames])
        /\ lazy_values' =
              Append(lazy_values, LazyTreeValue(ContextNames, "node", b[1], b[2], fresh))
    /\ UNCHANGED merged
    /\ UNCHANGED nonlazy

NewLazyKnownValue(b) ==
    /\ Len(lazy_values) < MaxLazy
    /\ lazy_values' = Append(lazy_values, LazyKnownValue("value", b[1], b[2]))
    /\ UNCHANGED <<heap, merged>>
    /\ UNCHANGED nonlazy

NewLazyUnknownValue(b) ==
    /\ Len(lazy_values) < MaxLazy
    /\ lazy_values' = Append(lazy_values, LazyUnknownValue(b[1], b[2]))
    /\ UNCHANGED <<heap, merged>>
    /\ UNCHANGED nonlazy

\* context.predefined_names[k] = v: an addition or a rebinding
SetPredefinedName(k, v) ==
    /\ heap' = [heap EXCEPT ![ContextNames] = DictSet(@, k, v)]
    /\ heap' # heap
    /\ UNCHANGED <<lazy_values, merged>>
    /\ UNCHANGED nonlazy

\* del context.predefined_names[k]
DelPredefinedName(k) ==
    /\ k \in DOMAIN heap[ContextNames]
    /\ heap' = [heap EXCEPT ![ContextNames] = DictDel(@, k)]
    /\ UNCHANGED <<lazy_values, merged>>
    /\ UNCHANGED nonlazy

\* get_merged_lazy_value(list of one or two of the lazy values)
GetMerged(ix) ==
    /\ LET lazy == [i \in DOMAIN ix |-> Public(lazy_values[ix[i]])] IN
          merged' = [args |-> lazy, result |-> get_merged_lazy_value(lazy)]
    /\ UNCHANGED <<heap, lazy_values>>
    /\ UNCHANGED nonlazy

InitLazyValues ==
    /\ prog = {}
    /\ InitCache
    /\ InitValueSets
    /\ InitLazy

NextLazy ==
    \/ \E b \in ArityBounds : NewLazyTreeValue(b)
    \/ \E b \in ArityBounds : NewLazyKnownValue(b)
    \/ \E b \in ArityBounds : NewLazyUnknownValue(b)
    \/ \E k \in Names, v \in NameValues : SetPredefinedName(k, v)
    \/ \E k \in Names : DelPredefinedName(k)
    \/ \E n \in 1..2 : \E ix \in [1..n -> DOMAIN lazy_values] : GetMerged(ix)

SpecLazy == InitLazyValues /\ [][NextLazy]_vars

\* ============================================================ annotations
\* pep0484.py: source text is a sequence of tokens, a syntax tree node is a
\* record of its type, its own tokens (a leaf) and its children
MaxText == 4
MaxParams == 3
MaxActual == 2
MaxMerges == 2
MaxIndex == 2

\* the tokens of annotation texts: N names one class, M is bound to two
\* classes, U is bound to nothing
TextTokens == {"N", "M", "U", "[", "]", ","}
NameTokens ==
    {"N", "M", "U", "K", "V", "int", "str", "Union", "Optional", "Mapping", "Iterable", "m"}
Texts == UNION {[1..n -> TextTokens] : n \in 0..MaxText}

Leaf(type, text) == [type |-> type, value |-> text, children |-> << >>]
Name(tok) == Leaf("name", <<tok>>)
Operator(tok) == Leaf("operator", <<tok>>)
String(text) == Leaf("string", text)
EndMarker == Leaf("endmarker", << >>)
NoNode == Leaf("None", << >>)
PythonNode(type, children) == [type |-> type, value |-> << >>, children |-> children]

\* the parser: a result is ok with a node and the position after it, or not ok
\* (ParserSyntaxError)
ParserSyntaxError == [ok |-> FALSE, node |-> NoNode, next |-> 0]
Parsed(node, next) == [ok |-> TRUE, node |-> node, next |-> next]
At(toks, i) == IF i \in DOMAIN toks THEN toks[i] ELSE ""

RECURSIVE ParseList(_, _, _, _), ParseTrailers(_, _, _), ParseExpr(_, _)
\* expr (',' expr)* [',']: one expr alone is the expr itself, otherwise a
\* node of the list type with the exprs and the commas as children
ParseList(toks, i, acc, type) ==
    LET After(e) ==
            IF ~e.ok THEN ParserSyntaxError
            ELSE IF At(toks, e.next) = ","
                 THEN IF At(toks, e.next + 1) \in {"", "]"}
                      THEN Parsed(PythonNode(type, acc \o <<e.node, Operator(",")>>),
                                  e.next + 1)
                      ELSE ParseList(toks, e.next + 1, acc \o <<e.node, Operator(",")>>, type)
                 ELSE IF acc = << >> THEN e
                      ELSE Parsed(PythonNode(type, Append(acc, e.node)), e.next)
    IN After(ParseExpr(toks, i))

\* atom trailer*: a subscript '[' subscriptlist ']' or an attribute '.' NAME
ParseTrailers(toks, i, acc) ==
    IF At(toks, i) = "["
    THEN LET Closed(s) ==
                 IF s.ok /\ At(toks, s.next) = "]"
                 THEN ParseTrailers(toks, s.next + 1,
                          Append(acc, PythonNode("trailer",
                                                 <<Operator("["), s.node, Operator("]")>>)))
                 ELSE ParserSyntaxError
         IN Closed(ParseList(toks, i + 1, << >>, "subscriptlist"))
    ELSE IF At(toks, i) = "."
    THEN IF At(toks, i + 1) \in NameTokens
         THEN ParseTrailers(toks, i + 2,
                  Append(acc, PythonNode("trailer", <<Operator("."), Name(toks[i + 1])>>)))
         ELSE ParserSyntaxError
    ELSE IF Len(acc) = 1 THEN Parsed(acc[1], i)
         ELSE Parsed(PythonNode("atom_expr", acc), i)

ParseExpr(toks, i) ==
    IF At(toks, i) \in NameTokens THEN ParseTrailers(toks, i + 1, <<Name(toks[i])>>)
    ELSE ParserSyntaxError

\* grammar.parse(text, start_symbol='eval_input', error_recovery=False):
\* an eval_input node of the expression and the end marker
parse_eval_input(toks) ==
    LET Whole(r) ==
            IF r.ok /\ r.next = Len(toks) + 1
            THEN Parsed(PythonNode("eval_input", <<r.node, EndMarker>>), r.next)
            ELSE ParserSyntaxError
    IN Whole(ParseList(toks, 1, << >>, "testlist"))

\* parse(text, error_recovery=False): a module of the statement (a statement
\* of one expression is that expression) and the end marker
parse(toks) ==
    IF toks = << >> THEN Parsed(PythonNode("file_input", <<EndMarker>>), 1)
    ELSE LET Whole(r) ==
                 IF r.ok /\ r.next = Len(toks) + 1
                 THEN Parsed(PythonNode("file_input", <<r.node, EndMarker>>), r.next)
                 ELSE ParserSyntaxError
         IN Whole(ParseList(toks, 1, << >>, "testlist_star_expr"))

\* node.get_code(): the source text of the node
RECURSIVE get_code(_)
get_code(node) ==
    LET RECURSIVE CodeOf(_)
        CodeOf(i) ==
            IF i > Len(node.children) THEN << >>
            ELSE get_code(node.children[i]) \o CodeOf(i + 1)
    IN IF node.children = << >> THEN node.value ELSE CodeOf(1)

\* ---------------------------------------------------------------- values
\* the objects evaluation yields, by their Python class
TreeObj(pytype, name, root, text, given) ==
    [kind |-> "Value", name |-> name, elems |-> {},
     pytype |-> pytype, root |-> root, text |-> text, given |-> given]
ClassContext(name) == TreeObj("ClassContext", name, "module", << >>, << >>)
TypingClass(name) == TreeObj("ClassContext", name, "typing", << >>, << >>)
TypeVar(name) == TreeObj("TypeVar", name, "module", << >>, << >>)
\* the compiled object of a constant; text is its get_safe_value()
CompiledValue(text) == TreeObj("CompiledValue", "", "builtins", text, << >>)
AnnotatedSubClass(name, given_types) ==
    TreeObj("AnnotatedSubClass", name, "module", << >>, given_types)

NO_CONTEXTS == NO_VALUES

\* what the names of the annotation context are bound to
Bindings ==
    [n \in NameTokens |->
        CASE n \in {"N", "int", "str"} -> {ClassContext(n)}
          [] n = "M" -> {ClassContext("M1"), ClassContext("M2")}
          [] n \in {"K", "V"} -> {TypeVar(n)}
          [] n \in {"Union", "Optional", "Mapping", "Iterable"} -> {TypingClass(n)}
          [] OTHER -> {}]

\* context.eval_node(node): a name gives what it is bound to, a string literal
\* the compiled object of the string, a subscripted expression the values of
\* the expression subscripted, an attribute of module m the binding of the
\* name, a list of expressions the tuple of what each evaluates to
RECURSIVE eval_node(_)
eval_node(node) ==
    CASE node.type = "name" -> Bindings[node.value[1]]
      [] node.type = "testlist" ->
            {TreeObj("tuple", "tuple", "builtins", << >>,
                     [i \in 1..((Len(node.children) + 1) \div 2) |->
                         MkValueSet(eval_node(node.children[2 * i - 1]))])}
      [] node.type = "string" -> {CompiledValue(node.value)}
      [] node.type = "eval_input" -> eval_node(node.children[1])
      [] node.type = "atom_expr" ->
            LET trailer == node.children[Len(node.children)] IN
            IF trailer.children[1] = Operator(".")
            THEN Bindings[trailer.children[2].value[1]]
            ELSE eval_node(IF Len(node.children) = 2 THEN node.children[1]
                           ELSE PythonNode("atom_expr", SubSeq(node.children, 1, Len(node.children) - 1)))
      [] OTHER -> {}

\* is_string(value): isinstance(value, str)
is_string(value) == value.pytype = "str"

\* _get_forward_reference_node(context, string): the parsed node, or None
\* after ParserSyntaxError
_get_forward_reference_node(string) ==
    LET NodeOf(new_node) == IF new_node.ok THEN new_node.node ELSE NoNode
    IN NodeOf(parse_eval_input(string))

\* (variant) the number of evaluated values is not looked at
_fix_forward_reference_any(node) ==
    LET Replaced(result) == [status |-> "ok", node |-> IF result # NoNode THEN result ELSE node]
        Resolved(evaled_context) ==
            Replaced(IF is_string(evaled_context)
                     THEN _get_forward_reference_node(evaled_context.text)
                     ELSE NoNode)
        Fixed(evaled_nodes) ==
            IF evaled_nodes = {} THEN [status |-> "raise", node |-> NoNode]
            ELSE Resolved(CHOOSE c \in evaled_nodes : TRUE)
    IN Fixed(eval_node(node))

\* _fix_forward_reference(context, node)
_fix_forward_reference(node) ==
    LET Replaced(result) == [status |-> "ok", node |-> IF result # NoNode THEN result ELSE node]
        Resolved(evaled_context) ==
            Replaced(IF is_string(evaled_context)
                     THEN _get_forward_reference_node(evaled_context.text)
                     ELSE NoNode)
        Fixed(evaled_nodes) ==
            IF Cardinality(evaled_nodes) # 1 THEN [status |-> "ok", node |-> node]
            ELSE Resolved(CHOOSE c \in evaled_nodes : TRUE)
    IN Fixed(eval_node(node))

\* _evaluate_for_annotation(context, annotation)
_evaluate_for_annotation(annotation) ==
    Ok(MkValueSet(eval_node(_fix_forward_reference(annotation).node)))

\* _evaluate_annotation_string(context, string) without an index
_evaluate_annotation_string(string) ==
    LET Evaluated(node) ==
            IF node = NoNode THEN Ok(NO_CONTEXTS) ELSE Ok(MkValueSet(eval_node(node)))
    IN Evaluated(_get_forward_reference_node(string))

\* value.array_type: None unless the value is a tuple
array_type(value) == IF value.pytype = "tuple" THEN "tuple" ELSE "None"

\* _evaluate_annotation_string(context, string, index) with an index: filtered
\* is what filter keeps of the evaluated set, the values with array_type
\* 'tuple' and len(list(py__iter__())) >= index; the lookup
\* filtered.py__simple_getitem__(index) is the mapper's over the members, a
\* tuple answering with its component or with IndexError past its end
_evaluate_annotation_string_index(string, index) ==
    LET Lookup(filtered) ==
            [filtered |-> filtered,
             result |-> from_sets({IF index + 1 \in DOMAIN c.given
                                   THEN Ok(c.given[index + 1])
                                   ELSE Raise({"IndexError"}) : c \in filtered})]
        Evaluated(node) ==
            IF node = NoNode THEN [filtered |-> {}, result |-> Ok(NO_CONTEXTS)]
            ELSE Lookup({c \in eval_node(node) :
                            array_type(c) = "tuple" /\ Len(c.given) >= index})
    IN Evaluated(_get_forward_reference_node(string))

\* _split_comment_param_declaration(decl_text)
_split_comment_param_declaration(decl_text) ==
    LET Params(node) ==
            IF node.type = "name" THEN <<get_code(node)>>
            ELSE SelectSeq([i \in DOMAIN node.children |->
                               IF node.children[i].type \in {"name", "atom_expr", "power"}
                               THEN get_code(node.children[i]) ELSE << >>],
                           LAMBDA code : code # << >>)
        Split(module) == IF ~module.ok THEN << >> ELSE Params(module.node.children[1])
    IN Split(parse(decl_text))

\* a function definition: the number of its parameters, the annotation of
\* each (NoNode for none) and the comment that follows on the same line:
\* kind "none" for no comment, "other" for one the pattern
\* ^#\s*type:\s*\(([^#]*)\)\s*-> does not match, "type" for one it matches,
\* params being its group 1
FuncDef(n, annotations, kind, params) ==
    [nparams |-> n, annotations |-> annotations, comment |-> kind, params |-> params]

\* isinstance(execution_context.var_args, InstanceArguments): the call is
\* bound to an instance (the warning of a count mismatch changes nothing)
ReceiverSkipped(bound, params_comments, nparams) == bound

\* (variant) the index into the comment is not moved past the receiver
AlignedIndex_same(index, skipped) == index

\* index -= 1 after the receiver
AlignedIndex(index, skipped) == IF skipped THEN index - 1 ELSE index

\* infer_param(execution_context, param), param being parameter number index
\* (from 0) of funcdef and bound telling whether the call has InstanceArguments
infer_param(funcdef, index, bound) ==
    LET annotation == funcdef.annotations[index + 1]
        Selected(params_comments, skipped, aligned) ==
            IF skipped /\ index = 0 THEN Ok(NO_CONTEXTS)
            ELSE IF aligned >= Len(params_comments) THEN Ok(NO_CONTEXTS)
            ELSE _evaluate_annotation_string(params_comments[aligned + 1])
        Aligned(params_comments, skipped) ==
            Selected(params_comments, skipped, AlignedIndex(index, skipped))
        FromComment(params_comments) ==
            Aligned(params_comments,
                    ReceiverSkipped(bound, params_comments, funcdef.nparams))
    IN IF annotation = NoNode
       THEN IF funcdef.comment # "type" THEN Ok(NO_CONTEXTS)
            ELSE FromComment(_split_comment_param_declaration(funcdef.params))
       ELSE _evaluate_for_annotation(annotation)

\* the class names of the replacement typing module's factory
valid_classnames == {"Mapping", "Iterable"}

\* the class the factory of the replacement typing module returns for a name
\* and the evaluated subscript arguments
AnnotatedClass(name, given_types) ==
    TreeObj("AnnotatedClass", name, "typing", << >>, given_types)

\* node.children[::2] of a subscriptlist, [node] otherwise
SubscriptNodes(node) ==
    IF node.type = "subscriptlist"
    THEN [i \in 1..((Len(node.children) + 1) \div 2) |-> node.children[2 * i - 1]]
    ELSE <<node>>

ReturnNone == [status |-> "none", value |-> NO_CONTEXTS, exc |-> {}]

\* py__simple_getitem__(context, typ, node)
py__simple_getitem__(typ, node) ==
    LET GetItem(nodes, type_name) ==
            IF typ.root # "typing" THEN ReturnNone
            ELSE IF type_name \in {"Union", "_Union"}
            THEN from_sets({Ok(MkValueSet(eval_node(nodes[i]))) : i \in DOMAIN nodes})
            ELSE IF type_name \in {"Optional", "_Optional"}
            THEN Ok(MkValueSet(eval_node(nodes[1])))
            ELSE IF type_name \notin valid_classnames THEN ReturnNone
            ELSE Ok(MkValueSet({AnnotatedClass(type_name,
                                   [i \in DOMAIN nodes |-> MkValueSet(eval_node(nodes[i]))])}))
    IN GetItem([i \in DOMAIN SubscriptNodes(node) |->
                   _fix_forward_reference(SubscriptNodes(node)[i]).node],
               typ.name)

\* _unpack_subscriptlist(subscriptlist): the arguments that are not slices
_unpack_subscriptlist(subscriptlist) ==
    IF subscriptlist.type = "subscriptlist"
    THEN SelectSeq(SubscriptNodes(subscriptlist), LAMBDA subscript : subscript.type # "subscript")
    ELSE IF subscriptlist.type # "subscript" THEN <<subscriptlist>> ELSE << >>

\* the values of a set in the order a loop over it meets them; the sets
\* iterated here have at most one TypeVar, so every order gives the same result
RECURSIVE SetToSeq(_)
SetToSeq(S) ==
    IF S = {} THEN << >>
    ELSE LET x == CHOOSE y \in S : TRUE IN <<x>> \o SetToSeq(S \ {x})

\* find_unknown_type_vars.check_node(node), found being the list so far
RECURSIVE check_node(_, _)
check_node(node, found) ==
    LET RECURSIVE CheckAll(_, _, _)
        CheckAll(nodes, i, acc) ==
            IF i > Len(nodes) THEN acc ELSE CheckAll(nodes, i + 1, check_node(nodes[i], acc))
        RECURSIVE Collect(_, _, _)
        Collect(type_var_set, i, acc) ==
            IF i > Len(type_var_set) THEN acc
            ELSE Collect(type_var_set, i + 1,
                     IF type_var_set[i].pytype = "TypeVar"
                        /\ \A j \in DOMAIN acc : acc[j] # type_var_set[i]
                     THEN Append(acc, type_var_set[i]) ELSE acc)
    IN IF node.type = "atom_expr"
       THEN LET trailer == node.children[Len(node.children)] IN
            IF trailer.type = "trailer" /\ trailer.children[1] = Operator("[")
            THEN CheckAll(_unpack_subscriptlist(trailer.children[2]), 1, found)
            ELSE found
       ELSE Collect(SetToSeq(eval_node(node)), 1, found)

\* find_unknown_type_vars(context, node)
find_unknown_type_vars(node) == check_node(node, << >>)

\* cls.list_type_vars(): the names of the type parameters a class declares,
\* in declaration order
list_type_vars ==
    [n \in {"N", "M1", "M2", "int", "str"} |->
        CASE n = "N" -> <<"K", "V">>
          [] n \in {"M1", "M2"} -> <<"V">>
          [] OTHER -> << >>]

\* tuple(remap_type_vars(cls)): type_var_dict.get(name, NO_CONTEXTS) for each
\* declared type parameter
remap_type_vars(cls, type_var_dict) ==
    [i \in DOMAIN list_type_vars[cls.name] |->
        IF list_type_vars[cls.name][i] \in DOMAIN type_var_dict
        THEN type_var_dict[list_type_vars[cls.name][i]]
        ELSE NO_CONTEXTS]

\* _define_type_vars(annotation_contexts, type_var_dict): context_set starts
\* empty and is joined with | to the set of one AnnotatedSubClass per class
_define_type_vars(annotation_contexts, type_var_dict) ==
    LET contexts == SetToSeq(annotation_contexts.elems)
        RECURSIVE Loop(_, _)
        Loop(i, context_set) ==
            IF i > Len(contexts) THEN context_set
            ELSE Loop(i + 1,
                     IF contexts[i].pytype = "ClassContext"
                     THEN OrOut(context_set,
                              ValueSet_init([type |-> "list",
                                  items |-> <<AnnotatedSubClass(contexts[i].name,
                                                  remap_type_vars(contexts[i], type_var_dict))>>]))
                     ELSE context_set)
    IN IF type_var_dict = << >> THEN Ok(annotation_contexts)
       ELSE Loop(1, Ok(NO_CONTEXTS))

\* the set whose execute_annotation() infer_return_types returns for an
\* inline return annotation; type_var_dict is what
\* _infer_type_vars_for_execution found for the call
infer_return_types(annotation, type_var_dict) ==
    LET unknown_type_vars == find_unknown_type_vars(annotation) IN
    IF unknown_type_vars = << >>
    THEN [substituted |-> FALSE, executed |-> Ok(MkValueSet(eval_node(annotation)))]
    ELSE [substituted |-> TRUE,
          executed |-> _define_type_vars(MkValueSet(eval_node(annotation)), type_var_dict)]

\* what a value answers: py__class__() its class, iteration its elements (the
\* keys of a dict, nothing for other values), get_mapping_item_contexts() the
\* pair of its key set and value set, an attribute only dicts have; given
\* holds the element set of a list, the key set and the value set of a dict
Capabilities(value) ==
    [py__class__ |-> MkValueSet({ClassContext(IF value.pytype = "Instance"
                                              THEN value.name ELSE value.pytype)}),
     iterate |-> IF value.pytype \in {"list", "dict"} THEN value.given[1] ELSE NO_CONTEXTS,
     has_mapping_items |-> value.pytype = "dict",
     get_mapping_item_contexts |->
        IF value.pytype = "dict" THEN value.given ELSE <<NO_CONTEXTS, NO_CONTEXTS>>]

\* context_set.name(): ValueSet defines neither py__class__ nor
\* merge_types_of_iterate, so the call is ValueSet.__getattr__'s mapper over
\* what the members answer
SetCall(context_set, name) ==
    from_sets({Ok(IF name = "py__class__" THEN Capabilities(c).py__class__
                  ELSE Capabilities(c).iterate) : c \in context_set.elems})

\* a dict of type variable bindings as the outcome of an expression
OkDict(d) == [status |-> "ok", value |-> d, exc |-> {}]
RaiseDict(E) == [status |-> "raise", value |-> << >>, exc |-> E]

\* _merge_type_var_dicts(base_dict, new_dict), both outcomes: base_dict after
\* the loop, or the exception that left it
_merge_type_var_dicts(base_dict, new_dict) ==
    LET names == IF new_dict.status = "ok" THEN SetToSeq(DOMAIN new_dict.value) ELSE << >>
        RECURSIVE Loop(_, _)
        Loop(i, base) ==
            IF i > Len(names) \/ base.status = "raise" THEN base
            ELSE LET type_var_name == names[i]
                     contexts == new_dict.value[type_var_name]
                 IN IF type_var_name \in DOMAIN base.value
                    THEN LET joined == __or__(base.value[type_var_name], contexts) IN
                         IF joined.status = "raise" THEN RaiseDict(joined.exc)
                         ELSE Loop(i + 1, OkDict([base.value EXCEPT
                                                     ![type_var_name] = joined.value]))
                    ELSE Loop(i + 1, OkDict([n \in DOMAIN base.value \cup {type_var_name} |->
                                               IF n = type_var_name THEN contexts
                                               ELSE base.value[n]]))
    IN IF base_dict.status = "raise" THEN base_dict
       ELSE IF new_dict.status = "raise" THEN new_dict
       ELSE Loop(1, base_dict)

\* _infer_type_vars(annotation_context, context_set)
RECURSIVE _infer_type_vars(_, _)
_infer_type_vars(annotation_context, context_set) ==
    LET name == annotation_context.name
        given == annotation_context.given
        \* for nested_annotation_context in given[k]: merge what it infers from
        \* the set the expression actual evaluates to
        RECURSIVE Nested(_, _, _, _)
        Nested(nested, i, actual, type_var_dict) ==
            IF i > Len(nested) \/ type_var_dict.status = "raise" THEN type_var_dict
            ELSE Nested(nested, i + 1, actual,
                     IF actual.status = "raise" THEN RaiseDict(actual.exc)
                     ELSE _merge_type_var_dicts(type_var_dict,
                              _infer_type_vars(nested[i], actual.value)))
        contexts == SetToSeq(context_set.elems)
        RECURSIVE Members(_, _)
        Members(i, type_var_dict) ==
            IF i > Len(contexts) \/ type_var_dict.status = "raise" THEN type_var_dict
            ELSE IF ~Capabilities(contexts[i]).has_mapping_items
            THEN Members(i + 1, type_var_dict)
            ELSE LET key_contexts == Capabilities(contexts[i]).get_mapping_item_contexts[1]
                     value_contexts == Capabilities(contexts[i]).get_mapping_item_contexts[2]
                 IN Members(i + 1,
                        Nested(SetToSeq(given[2].elems), 1, Ok(value_contexts),
                            Nested(SetToSeq(given[1].elems), 1, Ok(key_contexts),
                                   type_var_dict)))
    IN IF annotation_context.pytype = "TypeVar"
       THEN LET classes == SetCall(context_set, "py__class__") IN
            IF classes.status = "raise" THEN RaiseDict(classes.exc)
            ELSE OkDict((name :> classes.value))
       ELSE IF annotation_context.pytype # "AnnotatedClass" THEN OkDict(<< >>)
       ELSE IF name = "Iterable"
       THEN IF given = << >> THEN OkDict(<< >>)
            ELSE Nested(SetToSeq(given[1].elems), 1,
                        SetCall(context_set, "merge_types_of_iterate"), OkDict(<< >>))
       ELSE IF name = "Mapping"
       THEN IF Len(given) # 2 THEN OkDict(<< >>) ELSE Members(1, OkDict(<< >>))
       ELSE OkDict(<< >>)

\* the names that are bound to exactly one class in the annotation context
ClassNames == {n \in NameTokens : \E c \in Bindings[n] :
                 Bindings[n] = {c} /\ c.pytype = "ClassContext" /\ c.root = "module"}

\* the annotation nodes a parameter can carry: the expressions and the string
\* literals of the texts
AnnotationNodes ==
    {parse_eval_input(x).node.children[1] : x \in {y \in Texts : parse_eval_input(y).ok}}
        \cup {String(x) : x \in Texts}

\* _fix_forward_reference is applied to an annotation node
FixForwardReference(node) ==
    /\ ann = NoAnn
    /\ ann' = [op |-> "_fix_forward_reference", node |-> node,
               evaled |-> eval_node(node), result |-> _fix_forward_reference(node)]
    /\ UNCHANGED nonann

\* a parameter annotated with the name and one annotated with the name quoted
\* as a string are inferred
InferForwardPair(name) ==
    /\ ann = NoAnn
    /\ ann' = LET inferred == [annotation \in {Name(name), String(<<name>>)} |->
                                infer_param(FuncDef(1, <<annotation>>, "none", << >>),
                                            0, FALSE)]
               IN [op |-> "forward_pair", name |-> name,
                   plain |-> inferred[Name(name)], quoted |-> inferred[String(<<name>>)]]
    /\ UNCHANGED nonann

\* a parameter of a function without inline annotations is inferred
InferParamComment(n, index, bound, kind, params) ==
    /\ ann = NoAnn
    /\ ann' = [op |-> "infer_param", nparams |-> n, index |-> index, bound |-> bound,
               comment |-> kind, params |-> params,
               result |-> infer_param(FuncDef(n, [i \in 1..n |-> NoNode], kind, params),
                                      index, bound)]
    /\ UNCHANGED nonann

\* the expressions written between the brackets of a subscript
SubscriptArguments ==
    {Name("int"), Name("str"), Name("N"), Name("U"), String(<<"N">>)}

\* one argument, or a subscriptlist of two
SubscriptParts ==
    SubscriptArguments
        \cup {PythonNode("subscriptlist", <<a, Operator(","), b>>) :
                 a \in SubscriptArguments, b \in SubscriptArguments}

\* the values that get subscripted: names of the typing module and a class
\* of another module
SubscriptedValues ==
    {TypingClass(n) : n \in {"Union", "Optional", "Mapping", "Generic"}}
        \cup {ClassContext("N")}

\* typ[node] is evaluated
SimpleGetItem(typ, node) ==
    /\ ann = NoAnn
    /\ ann' = [op |-> "py__simple_getitem__", typ |-> typ,
               args |-> SubscriptNodes(node), result |-> py__simple_getitem__(typ, node)]
    /\ UNCHANGED nonann

\* base[args]: a subscripted expression
Subscripted(base, args) ==
    PythonNode("atom_expr",
        <<Name(base),
          PythonNode("trailer",
              <<Operator("["),
                IF Len(args) = 1 THEN args[1]
                ELSE PythonNode("subscriptlist", <<args[1], Operator(","), args[2]>>),
                Operator("]")>>)>>)

\* m.name: an attribute of a module
Attribute(module, name) ==
    PythonNode("atom_expr", <<Name(module), PythonNode("trailer", <<Operator("."), Name(name)>>)>>)

\* the annotations searched for type variables: names, a type variable of
\* another module, and generics nested up to twice, such as
\* Mapping[K, Iterable[K]]
TypeVarAnnotations ==
    LET PlainAnnotations == {Name("K"), Name("V"), Name("N"), Attribute("m", "K")}
        GenericAnnotations ==
            {Subscripted(base, args) : base \in {"Mapping", "Iterable"},
                args \in [1..1 -> PlainAnnotations] \cup [1..2 -> PlainAnnotations]}
        NestedAnnotations ==
            {Subscripted("Mapping", <<a, g>>) : a \in PlainAnnotations, g \in GenericAnnotations}
                \cup {Subscripted("Iterable", <<g>>) : g \in GenericAnnotations}
    IN PlainAnnotations \cup GenericAnnotations \cup NestedAnnotations

\* find_unknown_type_vars is applied to an annotation
FindUnknownTypeVars(node) ==
    /\ ann = NoAnn
    /\ ann' = [op |-> "find_unknown_type_vars", node |-> node,
               result |-> find_unknown_type_vars(node)]
    /\ UNCHANGED nonann

\* the return annotations of the functions inferred
ReturnAnnotations ==
    {Name("N"), Name("M"), Name("K"), Subscripted("N", <<Name("K")>>),
     Subscripted("N", <<Name("K"), Name("V")>>), Subscripted("M", <<Name("V")>>),
     Subscripted("N", <<Name("int")>>)}

\* the bindings of type variable names found for a call
TypeVarDicts ==
    UNION {[S -> {NO_CONTEXTS, MkValueSet({ClassContext("int")}),
                  MkValueSet({ClassContext("str")})}] :
             S \in SUBSET {"K", "V"}}

\* the return type of a call of a function with an inline return annotation
InferReturnTypes(annotation, type_var_dict) ==
    /\ ann = NoAnn
    /\ ann' = [op |-> "infer_return_types", node |-> annotation,
               type_var_dict |-> type_var_dict,
               result |-> infer_return_types(annotation, type_var_dict)]
    /\ UNCHANGED nonann

\* the evaluated annotations of parameters: a type variable, a class, generics
\* over type variables with one or two given types, a nested generic and a
\* generic of another name
ParamAnnotations ==
    LET K == MkValueSet({TypeVar("K")})
        V == MkValueSet({TypeVar("V")})
    IN {TypeVar("K"), ClassContext("N"),
        AnnotatedClass("Iterable", <<K>>), AnnotatedClass("Iterable", << >>),
        AnnotatedClass("Iterable", <<MkValueSet({AnnotatedClass("Iterable", <<K>>)})>>),
        AnnotatedClass("Mapping", <<K, V>>), AnnotatedClass("Mapping", <<K, K>>),
        AnnotatedClass("Mapping", <<K>>), AnnotatedClass("List", <<K>>)}

\* the values of the arguments of a call: up to MaxActual of an instance of
\* a class, a list with its element set, a dict with its key and value sets
ActualSets ==
    LET Instance(cls) == TreeObj("Instance", cls, "module", << >>, << >>)
        ListOfValues(elements) == TreeObj("list", "list", "builtins", << >>, <<elements>>)
        DictOfValues(keys, values) ==
            TreeObj("dict", "dict", "builtins", << >>, <<keys, values>>)
        ints == MkValueSet({Instance("int")})
        strs == MkValueSet({Instance("str")})
        ActualValues ==
            {Instance("int"), Instance("str"), ListOfValues(ints), ListOfValues(NO_CONTEXTS),
             DictOfValues(ints, strs), DictOfValues(strs, strs),
             DictOfValues(NO_CONTEXTS, NO_CONTEXTS)}
    IN {MkValueSet(S) : S \in {T \in SUBSET ActualValues : Cardinality(T) <= MaxActual}}

\* the type variables of a parameter's annotation are inferred from the
\* values of its argument
InferTypeVars(annotation_context, context_set) ==
    /\ ann = NoAnn
    /\ ann' = [op |-> "_infer_type_vars", annotation |-> annotation_context,
               actual |-> context_set,
               result |-> _infer_type_vars(annotation_context, context_set)]
    /\ UNCHANGED nonann

\* the loop of _infer_type_vars_for_execution: the bindings found for one
\* annotation after another (news) are merged into annotation_variable_results
\* (base); results holds base after each merge
MergeTypeVarDicts(base, news) ==
    /\ ann = NoAnn
    /\ ann' = [op |-> "_merge_type_var_dicts", base |-> base, news |-> news,
               results |-> LET RECURSIVE After(_)
                               After(i) ==
                                   _merge_type_var_dicts(
                                       IF i = 1 THEN OkDict(base) ELSE After(i - 1),
                                       OkDict(news[i]))
                           IN [i \in DOMAIN news |-> After(i)]]
    /\ UNCHANGED nonann

\* the parameter text of a type comment is split
SplitCommentParamDeclaration(decl_text) ==
    /\ ann = NoAnn
    /\ ann' = [op |-> "_split_comment_param_declaration", text |-> decl_text,
               result |-> _split_comment_param_declaration(decl_text)]
    /\ UNCHANGED nonann

\* the type comment of an assignment to the target at position index of a
\* target list is evaluated
EvaluateAnnotationString(string, index) ==
    /\ ann = NoAnn
    /\ ann' = [op |-> "_evaluate_annotation_string", text |-> string, index |-> index,
               evaluated |-> _evaluate_annotation_string_index(string, index)]
    /\ UNCHANGED nonann

InitAnnotation ==
    /\ prog = {}
    /\ InitCache
    /\ InitValueSets
    /\ InitLazy

\* one call into the annotation engine is made
NextAnnotation ==
    \/ ann = NoAnn /\ \E node \in AnnotationNodes : FixForwardReference(node)
    \/ ann = NoAnn /\ \E name \in ClassNames : InferForwardPair(name)
    \/ ann = NoAnn /\ \E node \in TypeVarAnnotations : FindUnknownTypeVars(node)
    \/ ann = NoAnn /\ \E annotation \in ReturnAnnotations, type_var_dict \in TypeVarDicts :
                         InferReturnTypes(annotation, type_var_dict)
    \/ ann = NoAnn /\ \E decl_text \in Texts \cup {<<"N", ",", "M", "[", "N", ",", "U", "]">>,
                                                  <<"M", "[", "N", ",", "U", "]">>} :
                         SplitCommentParamDeclaration(decl_text)
    \/ ann = NoAnn /\ \E string \in Texts, index \in 0..MaxIndex :
                         EvaluateAnnotationString(string, index)
    \/ ann = NoAnn /\ \E base \in TypeVarDicts, n \in 1..MaxMerges :
                         \E news \in [1..n -> TypeVarDicts] : MergeTypeVarDicts(base, news)
    \/ ann = NoAnn /\ \E annotation_context \in ParamAnnotations, context_set \in ActualSets :
                         InferTypeVars(annotation_context, context_set)
    \/ ann = NoAnn /\ \E typ \in SubscriptedValues, node \in SubscriptParts :
                         SimpleGetItem(typ, node)
    \/ ann = NoAnn /\ \E n \in 1..MaxParams, bound \in BOOLEAN,
                            kind \in {"type", "none", "other"} :
                         \E index \in 0..(n - 1),
                            params \in IF kind = "type" THEN Texts ELSE {<< >>} :
                            InferParamComment(n, index, bound, kind, params)

SpecAnnotation == InitAnnotation /\ [][NextAnnotation]_vars

\* ================================================================= claims
\* the call has an unhashable positional argument and hashable keyword values
ArgsUnhashable(c) ==
    /\ \E i \in DOMAIN c.id.args : ~Hashable(c.id.args[i])
    /\ \A p \in c.id.kw : Hashable(p[2])

\* the call whose step this is was made with an unhashable argument
ActorUnhashable ==
    IF calls' = calls + 1
    THEN IF Len(stack') > Len(stack) THEN ArgsUnhashable(stack'[Len(stack')])
         ELSE ArgsUnhashable(ret'.c)
    ELSE stack # << >> /\ ArgsUnhashable(top)

\* the session of the call whose step this is
ActorSession ==
    IF calls' = calls + 1
    THEN IF Len(stack') > Len(stack) THEN stack'[Len(stack')].sess ELSE ret'.c.sess
    ELSE IF stack # << >> THEN top.sess ELSE ""

\* C1: a call of a recursion-guarded or lazy-sequence function made while an
\* earlier call on the same key is still computing returns the default (the
\* empty list for the lazy-sequence wrapper), never the in-progress marker, does
\* not raise and does not invoke the wrapped function.
C1_ReentryReturnsDefault ==
    (ret.c.reentrant /\ ret.c.func \in GuardedFuncs \cup GeneratorFuncs) =>
        /\ ret.kind = "return"
        /\ ret.c.ninv = 0
        /\ ret.val # _RECURSION_SENTINEL
        /\ ret.c.func \in GeneratorFuncs => ret.val = ListOf(ret.c.func, ret.c.sess, << >>)

\* C2: a top-level call of one of two recursion-guarded functions that resolve
\* through each other, made with arguments usable as a cache key, ends with the
\* stack empty and a value returned to the caller.
C2_MutualAliasTerminates ==
    (stack # << >> /\ stack[1].func \in AliasFuncs /\ stack[1].hashable)
        ~> (stack = << >> /\ ret.c.func \in AliasFuncs /\ ret.kind = "return")

\* a top-level call of an alias returned after running both functions once
C2_Witness ==
    /\ stack = << >>
    /\ ret.c.func = "alias_a"
    /\ ret.c.hashable
    /\ ret.kind = "return"
    /\ ret.c.ninv = 1
    /\ ret.c.mode = "compute"
    /\ \E k \in DOMAIN memoize_cache[ret.c.sess] : k.func = "alias_b"

\* C3: once a call of a recursion-guarded function has returned along the
\* cached path, every later call in the session with the same function, equal
\* positional arguments and the same keyword pairs in any order returns that
\* same object without invoking the wrapped function.
C3_CacheIdentity ==
    (ret.c.func \in GuardedFuncs /\ ret.c.prior # None) =>
        /\ ret.kind = "return"
        /\ ret.val = ret.c.prior
        /\ ret.c.ninv = 0

\* a second call of the guarded function got the object the first one computed
C3_Witness ==
    /\ ret.c.func = "guarded"
    /\ ret.c.prior.tag = "obj"
    /\ ret.kind = "return"
    /\ ret.val = ret.c.prior
    /\ ret.c.id.kw # {}

\* C4: a re-entrant call of a function wrapped by inference_state_method_cache
\* or _memoize_default on the key an earlier call is still computing is
\* answered from the cache without invoking the wrapped function.
C4_PlainReentryAnswered ==
    (ret.c.reentrant /\ ret.c.func \in PlainFuncs \cup MemoFuncs) =>
        /\ ret.kind = "return"
        /\ ret.c.ninv = 0

C6_GeneratorDrainedOnce ==
    /\ (ret.c.func \in GeneratorFuncs /\ ret.c.mode = "compute" /\ ret.kind = "return") =>
          /\ ret.val = ListOf(ret.c.func, ret.c.sess, ret.c.produced)
          /\ ret.c.drains = 1
          /\ ret.c.ninv = 1
          /\ memoize_cache[ret.c.sess][ret.c.key] = ret.val
    /\ (ret.c.func \in GeneratorFuncs /\ ret.c.prior.tag = "list") =>
          /\ ret.kind = "return"
          /\ ret.val = ret.c.prior
          /\ ret.c.ninv = 0
          /\ ret.c.drains = 0

\* a later call returned the two-element list the first call stored
C6_Witness ==
    /\ ret.c.func \in GeneratorFuncs
    /\ ret.c.prior.tag = "list"
    /\ Len(ret.c.prior.items) = 2
    /\ ret.val = ret.c.prior
    /\ ret.c.ninv = 0

\* C7: a second construction of a CachedMetaClass class with equal (hashable)
\* constructor arguments in the session returns the instance the first one
\* returned, constructing nothing; constructions of the class with different
\* argument tuples have returned different instances.
C7_OneInstancePerArguments ==
    /\ (ret.c.func = "__call__" /\ ret.c.prior.tag = "obj") =>
          /\ ret.kind = "return"
          /\ ret.val = ret.c.prior
          /\ ret.c.ninv = 0
    /\ \A s \in Sessions : \A c1, c2 \in DOMAIN done[s] :
          (/\ c1.func = "__call__" /\ c2.func = "__call__"
           /\ c1.cls = c2.cls
           /\ c1 # c2
           /\ done[s][c1].tag = "obj" /\ done[s][c2].tag = "obj")
          => done[s][c1] # done[s][c2]

\* the second construction of K1 returned the first one's instance
C7_Witness ==
    /\ ret.c.func = "__call__"
    /\ ret.c.cls = "K1"
    /\ ret.c.prior.tag = "obj"
    /\ ret.c.prior.by = "K1"
    /\ ret.val = ret.c.prior

\* C8: a wrapped call under session S changes no other session's cache, every
\* cache holds only values made under its own session, and a call is never
\* handed a value made under another session.
C8_SessionIsolation ==
    /\ [](/\ \A s \in Sessions : \A k \in DOMAIN memoize_cache[s] :
                memoize_cache[s][k].sess \in {"", s}
          /\ (ret.kind = "return" /\ ret.val.sess # "") => ret.val.sess = ret.c.sess)
    /\ [][\A s \in Sessions :
             memoize_cache'[s] # memoize_cache[s] => ActorSession = s]_vars

\* both sessions cached the same key, each its own object
C8_Witness ==
    \E k \in DOMAIN memoize_cache["S1"] \cap DOMAIN memoize_cache["S2"] :
        /\ memoize_cache["S1"][k].tag = "obj"
        /\ memoize_cache["S2"][k].tag = "obj"
        /\ memoize_cache["S1"][k] # memoize_cache["S2"][k]
        /\ k.func = "plain"

\* C9: both sides of every law of the algebra (associativity, commutativity
\* and identity of |, idempotence of &) evaluate to ValueSets without raising,
\* and the two ValueSets are equal.
C9_AlgebraLaws ==
    vres.op \in {"assoc", "comm", "ident", "idem"} =>
        /\ vres.lhs.status = "ok"
        /\ vres.rhs.status = "ok"
        /\ __eq__(vres.lhs.value, vres.rhs.value)

\* C10: constructing a ValueSet from an iterable with a ValueSet among its
\* items fails the assertion, for a list, a set and an iterator alike, and the
\* constructor never returns a ValueSet that has a ValueSet as a member.
C10_NoNestedValueSet ==
    /\ (vres.op = "init" /\ vres.nested) => vres.lhs.status = "raise"
    /\ \A m \in built.elems : m.kind # "ValueSet"

\* C11: S.name(args) for a capability every member has returns the ValueSet
\* that is the union of the members' results (the empty ValueSet for empty S),
\* and from_sets of a sequence of ValueSets returns their union.
C11_BroadcastUnion ==
    (/\ vres.op \in {"broadcast", "from_sets"}
     /\ \A p \in vres.parts : p.status = "ok") =>
        /\ vres.lhs.status = "ok"
        /\ vres.lhs.value = MkValueSet(UNION {p.value.elems : p \in vres.parts})

\* C12: whatever is added to, removed from or rebound in the predefined_names
\* of the context after a LazyTreeValue was created from it, the name table the
\* lazy value holds has the entries the context's table had at creation.
C12_CapturedNamesFixed ==
    \A i \in DOMAIN lazy_values :
        lazy_values[i].cls = "LazyTreeValue" =>
            heap[lazy_values[i]._predefined_names] = lazy_values[i].created

\* a lazy value captured a non-empty table and the context's table has been
\* rebound since
C12_Witness ==
    \E i \in DOMAIN lazy_values :
        /\ lazy_values[i].cls = "LazyTreeValue"
        /\ "a" \in DOMAIN lazy_values[i].created
        /\ "a" \in DOMAIN heap[ContextNames]
        /\ heap[ContextNames]["a"] # lazy_values[i].created["a"]
        /\ heap[lazy_values[i]._predefined_names] = lazy_values[i].created

\* C13: the value get_merged_lazy_value returns for two or more lazy values
\* has the smallest component min and the largest component max; for one lazy
\* value it is that lazy value, bounds included.
C13_MergedBoundsUnion ==
    /\ Len(merged.args) = 1 => merged.result = merged.args[1]
    /\ Len(merged.args) >= 2 =>
          /\ merged.result.cls = "MergedLazyValues"
          /\ \A i \in DOMAIN merged.args :
                /\ merged.result.min <= merged.args[i].min
                /\ merged.result.max >= merged.args[i].max
          /\ \E i \in DOMAIN merged.args : merged.result.min = merged.args[i].min
          /\ \E i \in DOMAIN merged.args : merged.result.max = merged.args[i].max

\* C14: for every name bound to one class, the parameter annotated with the
\* name and the parameter annotated with the name quoted as a string are
\* inferred to the same ValueSet.
C14_ForwardReferenceEquivalence ==
    ann.op = "forward_pair" =>
        /\ ann.plain.status = "ok"
        /\ ann.quoted.status = "ok"
        /\ __eq__(ann.plain.value, ann.quoted.value)

\* C15: a typing name resolved to Union, subscripted, gives the union of the
\* evaluations of all subscript arguments, and Optional[X] gives exactly the
\* evaluation of X (arguments that are not string literals).
C15_UnionOptional ==
    (/\ ann.op = "py__simple_getitem__"
     /\ ann.typ.root = "typing"
     /\ \A i \in DOMAIN ann.args : ann.args[i].type # "string") =>
        /\ ann.typ.name = "Union" =>
              /\ ann.result.status = "ok"
              /\ ann.result.value =
                    MkValueSet(UNION {eval_node(ann.args[i]) : i \in DOMAIN ann.args})
        /\ ann.typ.name = "Optional" =>
              /\ ann.result.status = "ok"
              /\ ann.result.value = MkValueSet(eval_node(ann.args[1]))

\* the sub-expressions of an annotation that are not subscripted, in the order
\* of a left-to-right depth-first walk through the subscript arguments
RECURSIVE NonSubscripted(_)
NonSubscripted(node) ==
    LET RECURSIVE Walk(_, _)
        Walk(nodes, i) ==
            IF i > Len(nodes) THEN << >> ELSE NonSubscripted(nodes[i]) \o Walk(nodes, i + 1)
        last == node.children[Len(node.children)]
    IN IF node.type = "atom_expr" /\ last.children[1] = Operator("[")
       THEN Walk(SubscriptNodes(last.children[2]), 1)
       ELSE <<node>>

\* the position of the first non-subscripted sub-expression that evaluates
\* to the value
FirstOccurrence(node, v) ==
    CHOOSE i \in DOMAIN NonSubscripted(node) :
        /\ v \in eval_node(NonSubscripted(node)[i])
        /\ \A j \in 1..(i - 1) : v \notin eval_node(NonSubscripted(node)[j])

\* C16: find_unknown_type_vars returns the TypeVars that the non-subscripted
\* sub-expressions of the annotation evaluate to, each once, in the order of
\* their first occurrence in the walk.
C16_TypeVarsInOrder ==
    ann.op = "find_unknown_type_vars" =>
        /\ Range(ann.result) =
              {v \in UNION {eval_node(NonSubscripted(ann.node)[i]) :
                               i \in DOMAIN NonSubscripted(ann.node)} : v.pytype = "TypeVar"}
        /\ \A i, j \in DOMAIN ann.result : i # j => ann.result[i] # ann.result[j]
        /\ \A i, j \in DOMAIN ann.result :
              i < j => FirstOccurrence(ann.node, ann.result[i])
                         < FirstOccurrence(ann.node, ann.result[j])

\* C17: for a return annotation with unbound type variables the substitution
\* step gives, for every class of the evaluated annotation, an
\* AnnotatedSubClass whose given types are the bound sets of the class's type
\* parameters in declaration order, empty for a name never bound; without
\* unbound type variables the evaluated annotation is used as it is.
C17_TypeVarSubstitution ==
    ann.op = "infer_return_types" =>
        /\ find_unknown_type_vars(ann.node) = << >> =>
              /\ ~ann.result.substituted
              /\ ann.result.executed = Ok(MkValueSet(eval_node(ann.node)))
        /\ find_unknown_type_vars(ann.node) # << >> =>
              /\ ann.result.substituted
              /\ ann.result.executed.status = "ok"
              /\ \A c \in eval_node(ann.node) :
                    c.pytype = "ClassContext" =>
                        AnnotatedSubClass(c.name,
                            [i \in DOMAIN list_type_vars[c.name] |->
                                IF list_type_vars[c.name][i] \in DOMAIN ann.type_var_dict
                                THEN ann.type_var_dict[list_type_vars[c.name][i]]
                                ELSE NO_VALUES])
                          \in ann.result.executed.value.elems

\* C18: when the type comment declares exactly as many types as the function
\* has parameters, parameter i is resolved from comment entry i, for a call
\* bound to an instance as for any other call.
C18_EqualCountsPositional ==
    (/\ ann.op = "infer_param"
     /\ ann.comment = "type"
     /\ Len(_split_comment_param_declaration(ann.params)) = ann.nparams)
        => ann.result =
              _evaluate_annotation_string(
                  _split_comment_param_declaration(ann.params)[ann.index + 1])

\* C19: when the type comment's count differs from the function's parameter
\* count, infer_param returns a set without raising; in a call bound to an
\* instance parameter 0 gets the empty set and parameter i >= 1 is resolved
\* from comment entry i - 1; an aligned index past the end of the comment's
\* list gives the empty set.
C19_MismatchAligned ==
    (/\ ann.op = "infer_param"
     /\ ann.comment = "type"
     /\ Len(_split_comment_param_declaration(ann.params)) # ann.nparams)
        => LET params_comments == _split_comment_param_declaration(ann.params)
               aligned == IF ann.bound THEN ann.index - 1 ELSE ann.index
           IN /\ ann.result.status = "ok"
              /\ ann.result.value.kind = "ValueSet"
              /\ (ann.bound /\ ann.index = 0) => ann.result.value = NO_VALUES
              /\ (ann.bound /\ ann.index >= 1 /\ ann.index - 1 < Len(params_comments))
                    => ann.result = _evaluate_annotation_string(params_comments[ann.index])
              /\ aligned >= Len(params_comments) => ann.result.value = NO_VALUES

\* a bound call of a function of three parameters whose comment declares
\* (N, M): parameter 1 is resolved from entry 0, the class N
C19_Witness ==
    /\ ann.op = "infer_param"
    /\ ann.comment = "type"
    /\ ann.bound
    /\ ann.nparams = 3
    /\ ann.index = 1
    /\ ann.params = <<"N", ",", "M">>
    /\ ann.result = Ok(MkValueSet({ClassContext("N")}))

UnionDicts(d1, d2) ==
    [n \in DOMAIN d1 \cup DOMAIN d2 |->
        MkValueSet((IF n \in DOMAIN d1 THEN d1[n].elems ELSE {})
                       \cup (IF n \in DOMAIN d2 THEN d2[n].elems ELSE {}))]

RECURSIVE UnionAllDicts(_)
UnionAllDicts(D) ==
    IF D = {} THEN << >>
    ELSE LET d == CHOOSE x \in D : TRUE IN UnionDicts(d, UnionAllDicts(D \ {d}))

\* the restricted unification of an annotation with the values of an argument
RECURSIVE Unification(_, _)
Unification(annotation, actual) ==
    IF annotation.pytype = "TypeVar"
    THEN (annotation.name :>
              MkValueSet(UNION {Capabilities(c).py__class__.elems : c \in actual.elems}))
    ELSE IF annotation.pytype = "AnnotatedClass" /\ annotation.name = "Iterable"
            /\ annotation.given # << >>
    THEN UnionAllDicts({Unification(x,
                            MkValueSet(UNION {Capabilities(c).iterate.elems : c \in actual.elems})) :
                        x \in annotation.given[1].elems})
    ELSE IF annotation.pytype = "AnnotatedClass" /\ annotation.name = "Mapping"
            /\ Len(annotation.given) = 2
    THEN UnionAllDicts(
             UNION {{Unification(x, Capabilities(c).get_mapping_item_contexts[1]) :
                         x \in annotation.given[1].elems}
                    \cup {Unification(y, Capabilities(c).get_mapping_item_contexts[2]) :
                             y \in annotation.given[2].elems} :
                    c \in {m \in actual.elems : Capabilities(m).has_mapping_items}})
    ELSE << >>

\* C21: _infer_type_vars gives the restricted unification: a TypeVar is bound
\* to the classes of the actual values, Iterable[X] binds X against the
\* iterated elements, Mapping[K, V] binds K against the keys and V against the
\* values of the actual values that have key/value access, skipping the
\* others without an error, and every other annotation binds nothing.
C21_RestrictedUnification ==
    ann.op = "_infer_type_vars" =>
        /\ ann.result.status = "ok"
        /\ ann.result.value = Unification(ann.annotation, ann.actual)

\* C22: bindings are merged by union and never overwritten: after each merge
\* base holds, for every name, the union of what it held before and what the
\* merged dict holds, so over a sequence of merges every binding only grows.
C22_MergeByUnion ==
    ann.op = "_merge_type_var_dicts" =>
        \A i \in DOMAIN ann.news :
            /\ ann.results[i].status = "ok"
            /\ ann.results[i].value =
                  UnionDicts(IF i = 1 THEN ann.base ELSE ann.results[i - 1].value,
                             ann.news[i])

\* the pieces of a text between its commas outside brackets
RECURSIVE TopLevelSplit(_, _, _, _)
TopLevelSplit(text, i, depth, piece) ==
    IF i > Len(text) THEN <<piece>>
    ELSE IF text[i] = "," /\ depth = 0
    THEN <<piece>> \o TopLevelSplit(text, i + 1, 0, << >>)
    ELSE TopLevelSplit(text, i + 1,
             IF text[i] = "[" THEN depth + 1 ELSE IF text[i] = "]" THEN depth - 1 ELSE depth,
             Append(piece, text[i]))

\* every piece is a name or a subscripted name
ItemsAreGenerics(text) ==
    \A k \in DOMAIN TopLevelSplit(text, 1, 0, << >>) :
        LET piece == TopLevelSplit(text, 1, 0, << >>)[k] IN
        /\ parse_eval_input(piece).ok
        /\ parse_eval_input(piece).node.children[1].type \in {"name", "atom_expr"}

\* C23: a declaration of k >= 1 items, each a name or a subscripted generic,
\* is split on its top-level commas into exactly the k item texts, brackets
\* and inner commas kept; text that does not parse gives the empty list.
C23_TopLevelCommaSplit ==
    ann.op = "_split_comment_param_declaration" =>
        /\ ~parse(ann.text).ok => ann.result = << >>
        /\ ItemsAreGenerics(ann.text) =>
              ann.result = TopLevelSplit(ann.text, 1, 0, << >>)

\* C24: under the recursion-guarded and the lazy-sequence wrappers a key
\* holds the recursion sentinel only while a call for that key is on the call
\* stack, also after calls whose function raised; and a call answered from
\* the cache while no call for its key is in progress does not get the
\* sentinel.
C24_SentinelOnlyInProgress ==
    /\ \A s \in Sessions : \A k \in DOMAIN memoize_cache[s] :
          memoize_cache[s][k] = _RECURSION_SENTINEL =>
              \E i \in DOMAIN stack :
                  /\ stack[i].sess = s
                  /\ stack[i].hashable
                  /\ stack[i].key = k
    /\ (/\ ret.kind = "return"
        /\ ret.c.mode = "enter"
        /\ ret.val = _RECURSION_SENTINEL) => ret.c.reentrant

\* C25: a call of a memoizing wrapper invokes the wrapped function at most
\* once, whatever the function does: a TypeError raised by the function of a
\* call with a hashable key does not lead to a second invocation.
C25_AtMostOneInvocation ==
    /\ \A i \in DOMAIN stack : stack[i].ninv <= 1
    /\ ret.c.ninv <= 1

\* C26: constructing a class through CachedMetaClass returns an instance of
\* the class that was called, also when another class was constructed in the
\* session with equal arguments.
C26_InstanceOfCalledClass ==
    (/\ ret.kind = "return"
     /\ ret.c.func = "__call__"
     /\ ret.val.tag = "obj") => ret.val.by = ret.c.cls

\* C27: with an index i the component at position i is selected only from
\* the tuples that have more than i elements; other values are filtered out
\* before the lookup, which therefore never goes past the end of a tuple; text
\* that does not parse gives the empty set.
C27_IndexWithinTuple ==
    ann.op = "_evaluate_annotation_string" =>
        LET node == _get_forward_reference_node(ann.text)
            selected == {c \in eval_node(node) :
                            c.pytype = "tuple" /\ Len(c.given) > ann.index}
        IN IF node = NoNode THEN ann.evaluated.result = Ok(NO_VALUES)
           ELSE /\ ann.evaluated.filtered = selected
                /\ "IndexError" \notin ann.evaluated.result.exc
                /\ ann.evaluated.result =
                      Ok(MkValueSet(UNION {c.given[ann.index + 1].elems : c \in selected}))

====
